---- MODULE Spec2Model ----
(***************************************************************************)
(* Snap package execution module (salt/modules/snappkg.py) and its state   *)
(* module (salt/states/snappkg.py).                                        *)
(*                                                                         *)
(* Python strings that the code inspects character by character (package  *)
(* names, versions, the text printed by "snap list") are sequences of      *)
(* one-character strings; a Python dict is a function whose DOMAIN is its   *)
(* key set; a Python list is a sequence.  Messages that the code only      *)
(* passes along are TLA+ strings.                                          *)
(***************************************************************************)
EXTENDS Integers, Sequences, FiniteSets, TLC

VARIABLES
    snaps,      \* the packages really installed: store name -> version, or NoVersion
    context,    \* __context__ (only the key 'snappkg.list_pkgs' is used)
    last,       \* the call that has just returned (arguments, external commands it
                \* ran, outcome), until its caller has taken the outcome; else Idle
    prev,       \* the state function called just before, if one was: its name
                \* argument, whether it returned, the result it reported, and
                \* whether the snap was installed when it returned
    aliased     \* whether the dict the last list_pkgs returned IS the dict in context

vars == <<snaps, context, last, prev, aliased>>

(***************************************************************************)
(* Bounds of the model.                                                    *)
(***************************************************************************)
MaxVersion == 2     \* versions "1" .. "MaxVersion" exist in the store
MaxNames == 2       \* version(*names) is called with at most MaxNames names
MaxLines == 3       \* a listing of any text has at most MaxLines lines after its header

(***************************************************************************)
(* Strings.                                                                *)
(***************************************************************************)
Digits == <<"1", "2", "3", "4", "5", "6", "7", "8", "9">>

Versions == { <<Digits[i]>> : i \in 1..MaxVersion }

NoVersion == <<>>

NameOrder == << <<"a">>, <<"b">> >>

StoreNames == { NameOrder[i] : i \in 1..Len(NameOrder) }

DashName == <<"-", "x">>

GlobName == <<"a", "*">>

ArgNames == StoreNames \cup {DashName, GlobName}

Confinements == {"jailmode", "classic", "devmode", "strict"}

EmptyDict == <<>>

ContextKey == "snappkg.list_pkgs"

KeyInstalled == <<"i", "n", "s", "t", "a", "l", "l", "e", "d">>

\* A local variable: e is evaluated once and Body is given its value.
Bind(e, Body(_)) == CHOOSE y \in { Body(v) : v \in {e} } : TRUE

Range(s) == { s[i] : i \in 1..Len(s) }

StartsWith(s, c) == Len(s) > 0 /\ s[1] = c

Contains(s, c) == \E i \in 1..Len(s) : s[i] = c

IsSpace(c) == c \in {" ", "\t"}

CharRank(c) == IF \E i \in 1..Len(Digits) : Digits[i] = c
               THEN CHOOSE i \in 1..Len(Digits) : Digits[i] = c
               ELSE 0

\* s < t as Python orders strings: by the first place where they differ.
StrLess(s, t) ==
    \E i \in 1..Len(t) :
        /\ \A k \in 1..(i - 1) : k <= Len(s) /\ s[k] = t[k]
        /\ i > Len(s) \/ CharRank(s[i]) < CharRank(t[i])

\* sorted(S)
SortedList(S) ==
    [i \in 1..Cardinality(S) |->
        CHOOSE x \in S : Cardinality({ y \in S : StrLess(y, x) }) = i - 1]

\* sep.join(list)
RECURSIVE Join(_, _)
Join(list, sep) ==
    IF list = <<>> THEN <<>>
    ELSE IF Len(list) = 1 THEN list[1]
    ELSE list[1] \o <<sep>> \o Join(Tail(list), sep)

\* The places of the members of P in increasing order.
Ascending(P) ==
    [j \in 1..Cardinality(P) |->
        CHOOSE i \in P : Cardinality({ k \in P : k < i }) = j - 1]

\* s.split(sep): the pieces between the separators, empty pieces included.
SplitOn(s, sep) ==
    LET at == Ascending({ i \in 1..Len(s) : s[i] = sep })
    IN  [j \in 1..(Len(at) + 1) |->
            SubSeq(s,
                   IF j = 1 THEN 1 ELSE at[j - 1] + 1,
                   IF j = Len(at) + 1 THEN Len(s) ELSE at[j] - 1)]

\* re.sub(r"\s+", " ", s): every run of whitespace becomes one space.
CompressSpace(s) ==
    LET kept == Ascending({ i \in 1..Len(s) :
                              ~IsSpace(s[i]) \/ i = 1 \/ ~IsSpace(s[i - 1]) })
    IN  [j \in 1..Len(kept) |-> IF IsSpace(s[kept[j]]) THEN " " ELSE s[kept[j]]]

(***************************************************************************)
(* pkg_resource helpers and salt.utils.data.compare_dicts.                 *)
(***************************************************************************)
AddPkg(pkgs, name, version_num) ==
    IF name \in DOMAIN pkgs
    THEN [pkgs EXCEPT ![name] = Append(@, version_num)]
    ELSE [k \in DOMAIN pkgs \cup {name} |->
             IF k = name THEN <<version_num>> ELSE pkgs[k]]

SortPkglist(pkgs) == [k \in DOMAIN pkgs |-> SortedList(Range(pkgs[k]))]

Stringify(pkgs) == [k \in DOMAIN pkgs |-> Join(pkgs[k], ",")]

CompareDicts(old, new) ==
    LET changed == { k \in DOMAIN old \cup DOMAIN new :
                        \/ k \notin DOMAIN old
                        \/ k \notin DOMAIN new
                        \/ old[k] # new[k] }
    IN  [k \in changed |->
            [old |-> IF k \in DOMAIN old THEN old[k] ELSE <<>>,
             new |-> IF k \in DOMAIN new THEN new[k] ELSE <<>>]]

(***************************************************************************)
(* The external tool: "snap list" prints a header and one row per          *)
(* installed snap, name and version first.                                 *)
(***************************************************************************)
ListHeader == <<"N", " ", " ", "V", " ", "R">>

ListRow(name, version_num) == name \o <<" ", " ">> \o version_num \o <<"\t", "7">>

RECURSIVE ListRows(_, _)
ListRows(inv, i) ==
    IF i > Len(NameOrder) THEN <<>>
    ELSE IF inv[NameOrder[i]] = NoVersion THEN ListRows(inv, i + 1)
    ELSE <<"\n">> \o ListRow(NameOrder[i], inv[NameOrder[i]]) \o ListRows(inv, i + 1)

SnapList(inv) == ListHeader \o ListRows(inv, 1)

Inventories == [StoreNames -> Versions \cup {NoVersion}]

Stderrs == {<<>>, <<"e">>}

\* What one run of "snap install <name>" may do: exit code, error stream and
\* the inventory it leaves.  Exit code 0 means the snap is installed afterwards;
\* a failed run leaves the inventory alone or has installed another snap only.
InstallRuns(name, inv) ==
    { [retcode |-> 0, stderr |-> e, after |-> a] :
        e \in Stderrs,
        a \in IF name \notin StoreNames THEN {}
              ELSE IF inv[name] # NoVersion THEN {inv}
              ELSE { [inv EXCEPT ![name] = v] : v \in Versions } }
    \cup
    { [retcode |-> 1, stderr |-> e, after |-> a] :
        e \in Stderrs,
        a \in {inv} \cup
              { [inv EXCEPT ![d] = <<Digits[1]>>] :
                  d \in { n \in StoreNames \ {name} : inv[n] = NoVersion } } }

\* What one run of "snap remove <name>" may do.  Exit code 0 means the snap is
\* absent afterwards; a failed run leaves the inventory alone or has only
\* reverted the snap to another version.
RemoveRuns(name, inv) ==
    { [retcode |-> 0, stderr |-> e, after |-> a] :
        e \in Stderrs,
        a \in IF name \notin StoreNames THEN {}
              ELSE { [inv EXCEPT ![name] = NoVersion] } }
    \cup
    { [retcode |-> 1, stderr |-> e, after |-> a] :
        e \in Stderrs,
        a \in {inv} \cup
              IF name \in StoreNames /\ inv[name] # NoVersion
              THEN { [inv EXCEPT ![name] = v] : v \in Versions \ {inv[name]} }
              ELSE {} }

(***************************************************************************)
(* salt/modules/snappkg.py                                                 *)
(***************************************************************************)
ListCmd ==
    [tool |-> "list", argv |-> <<"snap", "list", "--color=never", "--unicode=never">>]

\* salt.utils.systemd.has_scope(__context__) and config.get('systemd.scope'):
\* a fact of the host, the same for every call.
SystemdScope == CHOOSE b \in BOOLEAN : TRUE

ScopePrefix == IF SystemdScope THEN <<"systemd-run", "--scope">> ELSE <<>>

InstallCmd(name, confinement) ==
    [tool |-> "install",
     argv |-> ScopePrefix \o
              <<"snap", "install", "--color=never", "--unicode=never",
                "--" \o confinement, name>>]

RemoveCmd(name) ==
    [tool |-> "remove", argv |-> ScopePrefix \o <<"snap", "remove", name>>]

\* The loop over the lines of the listing; i is the index enumerate() gives.
RECURSIVE ParseLines(_, _, _)
ParseLines(lines, i, ret) ==
    IF i >= Len(lines) THEN ret
    ELSE LET line == lines[i + 1]
             fields == SplitOn(CompressSpace(line), " ")
             firstTwo == SubSeq(fields, 1, IF Len(fields) < 2 THEN Len(fields) ELSE 2)
         IN  IF i = 0 \/ line = <<>> THEN ParseLines(lines, i + 1, ret)
             ELSE IF Len(firstTwo) # 2 THEN ParseLines(lines, i + 1, ret)
             ELSE ParseLines(lines, i + 1, AddPkg(ret, firstTwo[1], firstTwo[2]))

\* An invalidation that drops nothing.
_clear_versions_noop(ctx) == ctx

_clear_versions(ctx) == [k \in DOMAIN ctx \ {ContextKey} |-> ctx[k]]

StoreVersions(ctx, pkgs) == [k \in DOMAIN ctx \cup {ContextKey} |-> pkgs]

\* The listing path of list_pkgs: cmd.run of "snap list", the loop over its
\* lines and sort_pkglist.  What it yields depends on the installed snaps only.
ParseListing(out) == SortPkglist(ParseLines(SplitOn(out, "\n"), 0, EmptyDict))

ListedPkgs[inv \in Inventories] == ParseListing(SnapList(inv))

\* list_pkgs without the lookup in __context__: every call runs the listing.
list_pkgs_uncached(ctx, inv, versions_as_list, skipped) ==
    IF skipped
    THEN [ret |-> EmptyDict, ctx |-> ctx, calls |-> <<>>, shared |-> FALSE]
    ELSE [ret |-> IF versions_as_list THEN ListedPkgs[inv]
                  ELSE Stringify(ListedPkgs[inv]),
          ctx |-> StoreVersions(ctx, ListedPkgs[inv]),
          calls |-> <<ListCmd>>,
          shared |-> FALSE]

\* list_pkgs paying no attention to removed and purge_desired.
list_pkgs_unflagged(ctx, inv, versions_as_list, skipped) ==
    IF ContextKey \in DOMAIN ctx
    THEN IF versions_as_list
         THEN [ret |-> ctx[ContextKey], ctx |-> ctx, calls |-> <<>>, shared |-> TRUE]
         ELSE [ret |-> Stringify(ctx[ContextKey]), ctx |-> ctx, calls |-> <<>>,
               shared |-> FALSE]
    ELSE [ret |-> IF versions_as_list THEN ListedPkgs[inv]
                  ELSE Stringify(ListedPkgs[inv]),
          ctx |-> StoreVersions(ctx, ListedPkgs[inv]),
          calls |-> <<ListCmd>>,
          shared |-> FALSE]

\* list_pkgs(versions_as_list, removed/purge_desired): the value returned, the
\* context it leaves, the external commands it ran, and whether the value
\* returned is the very object the context holds.
list_pkgs(ctx, inv, versions_as_list, skipped) ==
    IF skipped
    THEN [ret |-> EmptyDict, ctx |-> ctx, calls |-> <<>>, shared |-> FALSE]
    ELSE IF ContextKey \in DOMAIN ctx
    THEN IF versions_as_list
         THEN [ret |-> ctx[ContextKey], ctx |-> ctx, calls |-> <<>>, shared |-> TRUE]
         ELSE [ret |-> Stringify(ctx[ContextKey]), ctx |-> ctx, calls |-> <<>>,
               shared |-> FALSE]
    ELSE LET ret == ListedPkgs[inv]
         IN  [ret |-> IF versions_as_list THEN ret ELSE Stringify(ret),
              ctx |-> StoreVersions(ctx, ret),
              calls |-> <<ListCmd>>,
              shared |-> FALSE]

\* The loop over names of _resource_version; fnmatch is not imported by the
\* module, so the first name holding '*' raises NameError.
RECURSIVE ResolveNames(_, _, _, _)
ResolveNames(names, i, pkgs, ret) ==
    IF i > Len(names) THEN [raised |-> FALSE, pkg_glob |-> FALSE, ret |-> ret]
    ELSE IF Contains(names[i], "*")
    THEN [raised |-> TRUE, pkg_glob |-> TRUE, ret |-> ret]
    ELSE ResolveNames(names, i + 1, pkgs,
            [k \in DOMAIN ret \cup {names[i]} |->
                IF k = names[i]
                THEN (IF k \in DOMAIN pkgs THEN pkgs[k] ELSE <<>>)
                ELSE ret[k]])

ResolvedVersions(l, names, versions_as_list) ==
    Bind(ResolveNames(names, 1, l.ret, EmptyDict), LAMBDA r :
    Bind(IF versions_as_list THEN r.ret ELSE Stringify(r.ret), LAMBDA ret :
        IF r.raised
        THEN [out |-> [kind |-> "raise", exc |-> [type |-> "NameError"]],
              ctx |-> l.ctx, calls |-> l.calls]
        ELSE IF Cardinality(DOMAIN ret) = 1 /\ ~r.pkg_glob
        THEN [out |-> [kind |-> "return", shape |-> "scalar",
                       val |-> ret[CHOOSE k \in DOMAIN ret : TRUE]],
              ctx |-> l.ctx, calls |-> l.calls]
        ELSE [out |-> [kind |-> "return", shape |-> "mapping", val |-> ret],
              ctx |-> l.ctx, calls |-> l.calls]))

_resource_version(ctx, inv, names, versions_as_list) ==
    IF Len(names) = 0
    THEN [out |-> [kind |-> "return", shape |-> "mapping", val |-> EmptyDict],
          ctx |-> ctx, calls |-> <<>>]
    ELSE Bind(list_pkgs(ctx, inv, TRUE, FALSE), LAMBDA l :
            ResolvedVersions(l, names, versions_as_list))

version(ctx, inv, names, versions_as_list) ==
    _resource_version(ctx, inv, names, versions_as_list)

CommandExecutionError(message, hasInfo, errors, changes) ==
    [type |-> "CommandExecutionError", message |-> message, hasInfo |-> hasInfo,
     info |-> [errors |-> errors, changes |-> changes]]

\* The confinement check letting one more name through.
ValidConfinementsLoose == {"jailmode", "classic", "devmode", "strict"}

ValidConfinements == {"jailmode", "classic", "devmode"}

\* Mutate without _clear_versions(): the after snapshot is served from the
\* cache the before snapshot filled.
MutateNoClear(ctx, cmd, run, message) ==
    Bind(list_pkgs(ctx, run.before, FALSE, FALSE), LAMBDA old :
    Bind(IF run.retcode # 0 /\ run.stderr # <<>> THEN <<run.stderr>> ELSE <<>>,
         LAMBDA errors :
    Bind(list_pkgs(old.ctx, run.after, FALSE, FALSE), LAMBDA new :
    Bind(CompareDicts(old.ret, new.ret), LAMBDA ret :
        [out |-> IF errors # <<>>
                 THEN [kind |-> "raise",
                       exc |-> [type |-> "CommandExecutionError",
                                message |-> message, hasInfo |-> TRUE,
                                info |-> [errors |-> errors, changes |-> ret]]]
                 ELSE [kind |-> "return", val |-> ret],
         ctx |-> new.ctx,
         inv |-> run.after,
         calls |-> old.calls \o <<cmd>> \o new.calls]))))

\* The errors of a run whatever it wrote to the error stream.
ErrorsOnAnyFailure(run) == IF run.retcode # 0 THEN <<run.stderr>> ELSE <<>>

\* errors, as install and remove set it from what cmd.run_all gave.
Errors(run) ==
    IF run.retcode # 0 /\ run.stderr # <<>> THEN <<run.stderr>> ELSE <<>>

\* Mutate running the command a second time when the first run failed.
MutateRetry(ctx, cmd, run, message) ==
    Bind(list_pkgs(ctx, run.before, FALSE, FALSE), LAMBDA old :
    Bind(Errors(run), LAMBDA errors :
    Bind(list_pkgs(_clear_versions(old.ctx), run.after, FALSE, FALSE), LAMBDA new :
    Bind(CompareDicts(old.ret, new.ret), LAMBDA ret :
        [out |-> IF errors # <<>>
                 THEN [kind |-> "raise",
                       exc |-> [type |-> "CommandExecutionError",
                                message |-> message, hasInfo |-> TRUE,
                                info |-> [errors |-> errors, changes |-> ret]]]
                 ELSE [kind |-> "return", val |-> ret],
         ctx |-> new.ctx,
         inv |-> run.after,
         calls |-> old.calls \o <<cmd>>
                       \o (IF run.retcode # 0 THEN <<cmd>> ELSE <<>>)
                       \o new.calls]))))

\* The part of install and remove after validation: before snapshot, the
\* mutating command, the errors, invalidation, after snapshot, the diff.
Mutate(ctx, cmd, run, message) ==
    Bind(list_pkgs(ctx, run.before, FALSE, FALSE), LAMBDA old :
    Bind(Errors(run), LAMBDA errors :
    Bind(list_pkgs(_clear_versions(old.ctx), run.after, FALSE, FALSE), LAMBDA new :
    Bind(CompareDicts(old.ret, new.ret), LAMBDA ret :
        [out |-> IF errors # <<>>
                 THEN [kind |-> "raise",
                       exc |-> CommandExecutionError(message, TRUE, errors, ret)]
                 ELSE [kind |-> "return", val |-> ret],
         ctx |-> new.ctx,
         inv |-> run.after,
         calls |-> old.calls \o <<cmd>> \o new.calls]))))

Rejected(ctx, inv, message) ==
    [out |-> [kind |-> "raise",
              exc |-> CommandExecutionError(message, FALSE, <<>>, EmptyDict)],
     ctx |-> ctx, inv |-> inv, calls |-> <<>>]

\* install with the check of the name left out.
install_unchecked(ctx, inv, name, confinement, run) ==
    IF confinement \notin ValidConfinements
    THEN Rejected(ctx, inv,
            "Invalid confinement mode. Options are jailmode, classic and devmode")
    ELSE Mutate(ctx, InstallCmd(name, confinement),
                [before |-> inv, retcode |-> run.retcode, stderr |-> run.stderr,
                 after |-> run.after],
                "Problem encountered installing package(s)")

install(ctx, inv, name, confinement, run) ==
    IF StartsWith(name, "-")
    THEN Rejected(ctx, inv, "Invalid snap package name ")
    ELSE IF confinement \notin ValidConfinements
    THEN Rejected(ctx, inv,
            "Invalid confinement mode. Options are jailmode, classic and devmode")
    ELSE Mutate(ctx, InstallCmd(name, confinement),
                [before |-> inv, retcode |-> run.retcode, stderr |-> run.stderr,
                 after |-> run.after],
                "Problem encountered installing package(s)")

remove(ctx, inv, name, run) ==
    IF StartsWith(name, "-")
    THEN Rejected(ctx, inv, "Invalid snap package name ")
    ELSE Mutate(ctx, RemoveCmd(name),
                [before |-> inv, retcode |-> run.retcode, stderr |-> run.stderr,
                 after |-> run.after],
                "Problem encountered removing package(s)")

(***************************************************************************)
(* salt/states/snappkg.py                                                  *)
(***************************************************************************)
StateReturn(name, result, changes, comment) ==
    [name |-> name, result |-> result, changes |-> changes, comment |-> comment]

NoCall == [kind |-> "none"]

\* CommandExecutionError.strerror_without_changes: the message followed by
\* the payload without its 'changes'.
StrerrorWithoutChanges(exc) == exc.message \o ". errors: (stderr)"

FormatExc(exc) == exc.message

Truthy(val) == val # <<>>

\* The except clause reporting no changes, whatever the error carries.
FailedNoChanges(name, exc, doing) ==
    StateReturn(name, FALSE, EmptyDict,
        "An error was encountered while " \o doing \o " package(s): "
            \o FormatExc(exc))

\* The except clause of installed and removed.
Failed(name, exc, doing) ==
    IF exc.hasInfo
    THEN StateReturn(name, FALSE, exc.info.changes, StrerrorWithoutChanges(exc))
    ELSE StateReturn(name, FALSE, EmptyDict,
            "An error was encountered while " \o doing \o " package(s): "
                \o FormatExc(exc))

\* The else branch of installed and removed: r is what install or remove did.
Converge(name, v, r, doing) ==
    [out |-> [kind |-> "return",
              val |-> IF r.out.kind = "raise"
                      THEN Failed(name, r.out.exc, doing)
                      ELSE StateReturn(name, TRUE,
                               [k \in {KeyInstalled} |-> r.out.val], "")],
     inner |-> r.out, ctx |-> r.ctx, inv |-> r.inv, calls |-> v.calls \o r.calls]

\* The return of the unchanged ret after dropping the cached inventory.
SatisfiedInvalidating(name, v, inv) ==
    [out |-> [kind |-> "return", val |-> StateReturn(name, TRUE, EmptyDict, "")],
     inner |-> NoCall, ctx |-> _clear_versions(v.ctx), inv |-> inv, calls |-> v.calls]

Satisfied(name, v, inv) ==
    [out |-> [kind |-> "return", val |-> StateReturn(name, TRUE, EmptyDict, "")],
     inner |-> NoCall, ctx |-> v.ctx, inv |-> inv, calls |-> v.calls]

Escaped(v, inv) ==
    [out |-> v.out, inner |-> NoCall, ctx |-> v.ctx, inv |-> inv, calls |-> v.calls]

\* installed without the test of version(name).
installed_unconditional(ctx, inv, name, confinement, run) ==
    Bind(version(ctx, inv, <<name>>, FALSE), LAMBDA v :
        IF v.out.kind = "raise" THEN Escaped(v, inv)
        ELSE Bind(install(v.ctx, inv, name, confinement, run), LAMBDA r :
                Converge(name, v, r, "installing")))

installed(ctx, inv, name, confinement, run) ==
    Bind(version(ctx, inv, <<name>>, FALSE), LAMBDA v :
        IF v.out.kind = "raise" THEN Escaped(v, inv)
        ELSE IF Truthy(v.out.val) THEN Satisfied(name, v, inv)
        ELSE Bind(install(v.ctx, inv, name, confinement, run), LAMBDA r :
                Converge(name, v, r, "installing")))

\* removed without the test of version(name).
removed_unconditional(ctx, inv, name, run) ==
    Bind(version(ctx, inv, <<name>>, FALSE), LAMBDA v :
        IF v.out.kind = "raise" THEN Escaped(v, inv)
        ELSE Bind(remove(v.ctx, inv, name, run), LAMBDA r :
                Converge(name, v, r, "removing")))

removed(ctx, inv, name, run) ==
    Bind(version(ctx, inv, <<name>>, FALSE), LAMBDA v :
        IF v.out.kind = "raise" THEN Escaped(v, inv)
        ELSE IF ~Truthy(v.out.val) THEN Satisfied(name, v, inv)
        ELSE Bind(remove(v.ctx, inv, name, run), LAMBDA r :
                Converge(name, v, r, "removing")))

(***************************************************************************)
(* The state machine: one action per call a user of the two modules can    *)
(* make, one for the caller taking the outcome of the call, one for a      *)
(* change of the installed snaps made outside the modules, and one for a   *)
(* caller modifying the dict list_pkgs handed to it.                       *)
(***************************************************************************)
NameTuples == UNION { [1..n -> ArgNames] : n \in 0..MaxNames }

Idle == [op |-> "idle"]

IsInstalled(inv, name) == name \in StoreNames /\ inv[name] # NoVersion

NoPrev == [op |-> "other"]

\* The run of a mutating command that is never started.
NoRun(inv) == [retcode |-> 0, stderr |-> <<>>, after |-> inv]

Runs(tool, res) == \E i \in 1..Len(res.calls) : res.calls[i].tool = tool

\* What cmd.run_all gave for the mutating command, if the call ran one.
RunOutcome(tool, res, run) ==
    IF Runs(tool, res)
    THEN [retcode |-> run.retcode, stderr |-> run.stderr]
    ELSE NoCall

Called(op, args, res, ran) ==
    /\ last' = [op |-> op, args |-> args, calls |-> res.calls, out |-> res.out,
                inner |-> res.inner, run |-> ran]
    /\ context' = res.ctx
    /\ snaps' = res.inv
    /\ prev' = prev

Init ==
    /\ snaps \in Inventories
    /\ context = EmptyDict
    /\ last = Idle
    /\ prev = NoPrev
    /\ aliased = FALSE

ListPkgs ==
    /\ last = Idle
    /\ \E versions_as_list \in BOOLEAN, skipped \in BOOLEAN :
        \E l \in {list_pkgs(context, snaps, versions_as_list, skipped)} :
            /\ Called("list_pkgs",
                      [versions_as_list |-> versions_as_list, skipped |-> skipped],
                      [out |-> [kind |-> "return", val |-> l.ret], inner |-> NoCall,
                       ctx |-> l.ctx, inv |-> snaps, calls |-> l.calls],
                      NoCall)
            /\ aliased' = l.shared

ClearVersions ==
    /\ last = Idle
    /\ Called("_clear_versions", <<>>,
              [out |-> NoCall, inner |-> NoCall, ctx |-> _clear_versions(context),
               inv |-> snaps, calls |-> <<>>],
              NoCall)
    /\ aliased' = FALSE

Version ==
    /\ last = Idle
    /\ \E names \in NameTuples, versions_as_list \in BOOLEAN :
        \E v \in {version(context, snaps, names, versions_as_list)} :
            /\ Called("version",
                      [names |-> names, versions_as_list |-> versions_as_list],
                      [out |-> v.out, inner |-> NoCall, ctx |-> v.ctx, inv |-> snaps,
                       calls |-> v.calls],
                      NoCall)
            /\ aliased' = FALSE

Install ==
    /\ last = Idle
    /\ \E name \in ArgNames, confinement \in Confinements :
        \E run \in IF Runs("install", install(context, snaps, name, confinement,
                                              NoRun(snaps)))
                   THEN InstallRuns(name, snaps) ELSE {NoRun(snaps)} :
            \E r \in {install(context, snaps, name, confinement, run)} :
                /\ Called("install", [name |-> name, confinement |-> confinement],
                          [out |-> r.out, inner |-> NoCall, ctx |-> r.ctx,
                           inv |-> r.inv, calls |-> r.calls],
                          RunOutcome("install", r, run))
                /\ aliased' = FALSE

Remove ==
    /\ last = Idle
    /\ \E name \in ArgNames :
        \E run \in IF Runs("remove", remove(context, snaps, name, NoRun(snaps)))
                   THEN RemoveRuns(name, snaps) ELSE {NoRun(snaps)} :
            \E r \in {remove(context, snaps, name, run)} :
                /\ Called("remove", [name |-> name],
                          [out |-> r.out, inner |-> NoCall, ctx |-> r.ctx,
                           inv |-> r.inv, calls |-> r.calls],
                          RunOutcome("remove", r, run))
                /\ aliased' = FALSE

Installed ==
    /\ last = Idle
    /\ \E name \in ArgNames, confinement \in Confinements :
        \E run \in IF Runs("install", installed(context, snaps, name, confinement,
                                                NoRun(snaps)))
                   THEN InstallRuns(name, snaps) ELSE {NoRun(snaps)} :
            \E r \in {installed(context, snaps, name, confinement, run)} :
            /\ Called("installed", [name |-> name, confinement |-> confinement], r,
                      RunOutcome("install", r, run))
            /\ aliased' = FALSE

Removed ==
    /\ last = Idle
    /\ \E name \in ArgNames :
        \E run \in IF Runs("remove", removed(context, snaps, name, NoRun(snaps)))
                   THEN RemoveRuns(name, snaps) ELSE {NoRun(snaps)} :
            \E r \in {removed(context, snaps, name, run)} :
            /\ Called("removed", [name |-> name], r, RunOutcome("remove", r, run))
            /\ aliased' = FALSE

\* The caller has taken the outcome of the call.
Taken ==
    /\ last # Idle
    /\ last' = Idle
    /\ prev' = IF last.op \in {"installed", "removed"}
               THEN [op |-> last.op, name |-> last.args.name,
                     returned |-> last.out.kind = "return",
                     result |-> last.out.kind = "return" /\ last.out.val.result,
                     present |-> IsInstalled(snaps, last.args.name)]
               ELSE NoPrev
    /\ aliased' = FALSE
    /\ UNCHANGED <<snaps, context>>

\* Something other than these modules installs, removes or refreshes a snap.
ExternalChange ==
    /\ last = Idle
    /\ snaps' \in Inventories \ {snaps}
    /\ prev' = NoPrev
    /\ UNCHANGED <<context, last, aliased>>

\* The caller of list_pkgs deletes a key of the dict it was given.  When that
\* dict is the object the context holds, the context loses the key too.
CallerMutates ==
    /\ last # Idle
    /\ last.op = "list_pkgs"
    /\ \E k \in DOMAIN last.out.val :
          LET val == [j \in DOMAIN last.out.val \ {k} |-> last.out.val[j]]
          IN  /\ last' = [last EXCEPT !.out.val = val]
              /\ context' = IF aliased THEN StoreVersions(context, val) ELSE context
    /\ UNCHANGED <<snaps, prev, aliased>>

(***************************************************************************)
(* list_pkgs over any text the listing command may print: rows of snaps,   *)
(* lines of one field, lines that begin with whitespace, blank lines.      *)
(***************************************************************************)
OneFieldLine == <<"w">>

IndentedLine == <<" ", "c", " ", "1">>

ListingLines ==
    { ListRow(n, v) : n \in StoreNames, v \in Versions }
        \cup {OneFieldLine, IndentedLine, <<>>}

ListingTexts == UNION { [1..n -> ListingLines] : n \in 0..MaxLines }

\* The text printed: the header, then the lines.
RECURSIVE TextOf(_, _)
TextOf(lines, i) ==
    IF i > Len(lines) THEN <<>>
    ELSE <<"\n">> \o lines[i] \o TextOf(lines, i + 1)

\* list_pkgs when cmd.run hands back the text out.
list_pkgs_given(ctx, out, versions_as_list) ==
    IF ContextKey \in DOMAIN ctx
    THEN IF versions_as_list
         THEN [ret |-> ctx[ContextKey], ctx |-> ctx, calls |-> <<>>, shared |-> TRUE]
         ELSE [ret |-> Stringify(ctx[ContextKey]), ctx |-> ctx, calls |-> <<>>,
               shared |-> FALSE]
    ELSE Bind(ParseListing(out), LAMBDA ret :
            [ret |-> IF versions_as_list THEN ret ELSE Stringify(ret),
             ctx |-> StoreVersions(ctx, ret),
             calls |-> <<ListCmd>>,
             shared |-> FALSE])

\* The text is drawn when cmd.run is reached, that is on a cache miss.
ListOutput ==
    /\ last = Idle
    /\ \E lines \in IF ContextKey \in DOMAIN context THEN {<<>>} ELSE ListingTexts,
          versions_as_list \in BOOLEAN :
        \E l \in {list_pkgs_given(context, ListHeader \o TextOf(lines, 1),
                                   versions_as_list)} :
            /\ last' = [op |-> "list_pkgs",
                        args |-> [versions_as_list |-> versions_as_list,
                                  skipped |-> FALSE, lines |-> lines],
                        calls |-> l.calls,
                        out |-> [kind |-> "return", val |-> l.ret],
                        inner |-> NoCall, run |-> NoCall]
            /\ context' = l.ctx
            /\ aliased' = l.shared
    /\ UNCHANGED <<snaps, prev>>

NextListing ==
    \/ ListOutput
    \/ ClearVersions
    \/ Taken

InitListing == Init /\ snaps = [n \in StoreNames |-> NoVersion]

SpecListing == InitListing /\ [][NextListing]_vars

Next ==
    \/ ListPkgs
    \/ ClearVersions
    \/ Version
    \/ Install
    \/ Remove
    \/ Installed
    \/ Removed
    \/ Taken
    \/ ExternalChange
    \/ CallerMutates

Spec == Init /\ [][Next]_vars

\* The calls of the two modules alone: the installed snaps change through the
\* commands of install and remove only, and callers leave returned dicts alone.
NextClosed ==
    \/ ListPkgs
    \/ Version
    \/ Install
    \/ Remove
    \/ Installed
    \/ Removed
    \/ Taken

SpecClosed == Init /\ [][NextClosed]_vars

(***************************************************************************)
(* Properties.                                                             *)
(***************************************************************************)
\* The installed snaps as a listing free of error shows them: name -> version.
Inventory(inv) == [n \in { m \in StoreNames : inv[m] # NoVersion } |-> inv[n]]

\* The same with each version in a list, as the context stores it.
InventoryLists(inv) ==
    [n \in { m \in StoreNames : inv[m] # NoVersion } |-> <<inv[n]>>]

\* The ChangeSet a call of install or remove handed back, returned or raised.
ChangeSetOf(out) == IF out.kind = "raise" THEN out.exc.info.changes ELSE out.val

\* A step that is a call of install or remove passing validation.
MutationStep ==
    /\ last = Idle
    /\ last'.op \in {"install", "remove"}
    /\ ~StartsWith(last'.args.name, "-")
    /\ last'.op = "install" =>
           last'.args.confinement \in {"jailmode", "classic", "devmode"}

\* C1 as stated: the second of two successive installed(X), X a package name
\* and no glob pattern, with no change of the installed snaps by anything else
\* in between, returns result True and empty changes, whatever the external
\* tool did.
C1_SecondInstalledAlwaysClean ==
    (/\ last.op = "installed"
     /\ prev.op = "installed"
     /\ prev.name = last.args.name
     /\ ~Contains(last.args.name, "*"))
        => /\ last.out.kind = "return"
           /\ last.out.val.result
           /\ last.out.val.changes = EmptyDict

\* C1 amended: the second of two successive installed(X), with no change of
\* the installed snaps by anything else in between, returns result True and
\* empty changes and runs no install command, provided the first call returned
\* result True and X is installed when it has returned.
C1_InstalledIdempotent ==
    (/\ last.op = "installed"
     /\ prev.op = "installed"
     /\ prev.name = last.args.name
     /\ prev.result
     /\ prev.present)
        => /\ last.out.kind = "return"
           /\ last.out.val.result
           /\ last.out.val.changes = EmptyDict
           /\ ~Runs("install", last)

C1_Witness ==
    /\ last.op = "installed"
    /\ prev.op = "installed"
    /\ prev.name = last.args.name
    /\ prev.result
    /\ prev.present
    /\ last.out.kind = "return"

\* C2 as stated: the second of two successive removed(X), X a package name and
\* no glob pattern, with no change of the installed snaps by anything else in
\* between, runs no removal command and returns result True and empty changes,
\* whatever the external tool did.
C2_SecondRemovedAlwaysClean ==
    (/\ last.op = "removed"
     /\ prev.op = "removed"
     /\ prev.name = last.args.name
     /\ ~Contains(last.args.name, "*"))
        => /\ last.out.kind = "return"
           /\ last.out.val.result
           /\ last.out.val.changes = EmptyDict
           /\ ~Runs("remove", last)

\* C2 amended: the second of two successive removed(X), with no change of the
\* installed snaps by anything else in between, runs no removal command and
\* returns result True and empty changes, provided the first call returned a
\* report and X is not installed when it has returned.
C2_RemovedIdempotent ==
    (/\ last.op = "removed"
     /\ prev.op = "removed"
     /\ prev.name = last.args.name
     /\ prev.returned
     /\ ~prev.present)
        => /\ last.out.kind = "return"
           /\ last.out.val.result
           /\ last.out.val.changes = EmptyDict
           /\ ~Runs("remove", last)

C2_Witness ==
    /\ last.op = "removed"
    /\ prev.op = "removed"
    /\ prev.name = last.args.name
    /\ prev.returned
    /\ ~prev.present
    /\ last.args.name \in StoreNames
    /\ last.out.kind = "return"

\* C3: a call of install or remove that passes validation runs its mutating
\* command once, then invalidates the cache and runs the listing command as its
\* last external command, whatever the mutating command did; the cache then
\* holds the inventory as it is after the command, and the ChangeSet, returned
\* or carried by the error raised, is the diff of the before snapshot and that
\* inventory, so an error raised over a changed inventory carries a non-empty
\* one.
C3_DiffAfterMutation ==
    [][MutationStep =>
        LET n == Len(last'.calls)
            before == IF ContextKey \in DOMAIN context
                      THEN Stringify(context[ContextKey])
                      ELSE Inventory(snaps)
            after == Inventory(snaps')
        IN  /\ n >= 2
            /\ last'.calls[n] = ListCmd
            /\ last'.calls[n - 1].tool = last'.op
            /\ \A i \in 1..(n - 2) : last'.calls[i].tool = "list"
            /\ context' = [k \in {ContextKey} |-> InventoryLists(snaps')]
            /\ last'.out.kind = "raise" => last'.out.exc.hasInfo
            /\ ChangeSetOf(last'.out) = CompareDicts(before, after)
            /\ (last'.out.kind = "raise" /\ before # after)
                   => ChangeSetOf(last'.out) # EmptyDict
    ]_vars

C3_Witness ==
    /\ last.op = "install"
    /\ last.out.kind = "raise"
    /\ last.out.exc.hasInfo
    /\ last.out.exc.info.changes # EmptyDict
    /\ context = [k \in {ContextKey} |-> InventoryLists(snaps)]

\* C4: a call of list_pkgs (not asked for removed or purge_desired) made
\* while the context holds no inventory, as after _clear_versions, runs the
\* listing command exactly once and stores what it lists in the context; one
\* made while the context holds an inventory runs no external command and
\* leaves the context as it is.
C4_CacheFreshness ==
    [][(last = Idle /\ last'.op = "list_pkgs" /\ ~last'.args.skipped) =>
        IF ContextKey \notin DOMAIN context
        THEN /\ last'.calls = <<ListCmd>>
             /\ context' = [k \in {ContextKey} |-> InventoryLists(snaps)]
        ELSE /\ last'.calls = <<>>
             /\ context' = context
    ]_vars

C4_Witness ==
    /\ last.op = "list_pkgs"
    /\ ~last.args.skipped
    /\ last.calls = <<ListCmd>>
    /\ context = [k \in {ContextKey} |-> InventoryLists(snaps)]
    /\ \E n \in StoreNames : snaps[n] # NoVersion

\* C5 as stated: the ChangeSet of install and remove holds only what changed
\* between the start of the call and the listing after the command: it is the
\* diff of the snaps installed when the call starts and those installed after.
C5_BeforeIsActual ==
    [][MutationStep =>
        ChangeSetOf(last'.out) = CompareDicts(Inventory(snaps), Inventory(snaps'))
    ]_vars

\* install has returned a ChangeSet saying a snap went away, which no run of
\* "snap install" does: the snap was in the cached inventory only.
C5_Witness ==
    /\ last.op = "install"
    /\ last.out.kind = "return"
    /\ \E k \in DOMAIN last.out.val :
          last.out.val[k].old # <<>> /\ last.out.val[k].new = <<>>

\* C6: install and remove of a name that begins with '-' raise the error of
\* the name check, run no external command, and leave the context and the
\* installed snaps as they were.
C6_NameValidation ==
    [][(/\ last = Idle
        /\ last'.op \in {"install", "remove"}
        /\ StartsWith(last'.args.name, "-"))
        => /\ last'.out.kind = "raise"
           /\ last'.out.exc.type = "CommandExecutionError"
           /\ last'.out.exc.message = "Invalid snap package name "
           /\ ~last'.out.exc.hasInfo
           /\ last'.calls = <<>>
           /\ context' = context
           /\ snaps' = snaps
    ]_vars

C6_Witness ==
    /\ last.op = "remove"
    /\ StartsWith(last.args.name, "-")
    /\ last.out.kind = "raise"
    /\ ContextKey \in DOMAIN context

\* C7: install of a name that passes the name check with a confinement other
\* than jailmode, classic and devmode raises the error of the confinement
\* check, runs no external command and leaves the context and the installed
\* snaps as they were; with one of the three it runs the install command.
C7_ConfinementValidation ==
    [][(/\ last = Idle
        /\ last'.op = "install"
        /\ ~StartsWith(last'.args.name, "-"))
        => IF last'.args.confinement \notin {"jailmode", "classic", "devmode"}
           THEN /\ last'.out.kind = "raise"
                /\ last'.out.exc.type = "CommandExecutionError"
                /\ ~last'.out.exc.hasInfo
                /\ last'.calls = <<>>
                /\ context' = context
                /\ snaps' = snaps
           ELSE /\ Runs("install", last')
                /\ last'.out.kind = "raise" => last'.out.exc.hasInfo
    ]_vars

C7_Witness ==
    /\ last.op = "install"
    /\ last.args.name \in StoreNames
    /\ last.args.confinement = "strict"
    /\ last.out.kind = "raise"
    /\ ContextKey \in DOMAIN context

\* C8: installed and removed return a report whatever install or remove did;
\* when it raised, the report has result False, a comment that is not empty,
\* and as changes the ChangeSet the error carries, or none when it carries no
\* payload.
C8_ErrorsBecomeReports ==
    (last.op \in {"installed", "removed"} /\ last.inner.kind # "none")
        => /\ last.out.kind = "return"
           /\ last.inner.kind = "raise" =>
                 /\ last.out.val.result = FALSE
                 /\ last.out.val.comment # ""
                 /\ last.out.val.changes =
                        IF last.inner.exc.hasInfo
                        THEN last.inner.exc.info.changes
                        ELSE EmptyDict

C8_Witness ==
    /\ last.op = "installed"
    /\ last.inner.kind = "raise"
    /\ last.inner.exc.hasInfo
    /\ last.inner.exc.info.changes # EmptyDict
    /\ last.out.kind = "return"

\* C9 as stated: nothing a caller does to an inventory list_pkgs returned to
\* it changes what the context holds.
C9_ReturnedCopy ==
    [][(last.op = "list_pkgs" /\ last'.op = "list_pkgs") => context' = context]_vars

\* list_pkgs(versions_as_list=True) has returned the dict the context holds,
\* and its caller has deleted a key of it.
C9_Witness ==
    /\ last.op = "list_pkgs"
    /\ last.args.versions_as_list
    /\ aliased
    /\ last.out.val = context[ContextKey]
    /\ context[ContextKey] # InventoryLists(snaps)

\* C10 as stated: when install or remove returned without error, the report of
\* installed or removed has result True and as changes the ChangeSet returned.
C10_ChangesAreChangeSet ==
    (last.op \in {"installed", "removed"} /\ last.inner.kind = "return")
        => /\ last.out.kind = "return"
           /\ last.out.val.result
           /\ last.out.val.changes = last.inner.val

\* A report of removed after remove returned a ChangeSet that is not empty:
\* its changes are the mapping with the one key 'installed'.
C10_Witness ==
    /\ last.op = "removed"
    /\ last.inner.kind = "return"
    /\ last.inner.val # EmptyDict
    /\ last.out.kind = "return"
    /\ last.out.val.result
    /\ DOMAIN last.out.val.changes = {KeyInstalled}
    /\ last.out.val.changes[KeyInstalled] = last.inner.val

\* fnmatch.fnmatchcase(s, p) for patterns whose only special character is '*'.
RECURSIVE GlobMatch(_, _)
GlobMatch(s, p) ==
    IF p = <<>> THEN s = <<>>
    ELSE IF p[1] = "*"
    THEN \E k \in 0..Len(s) : GlobMatch(SubSeq(s, k + 1, Len(s)), Tail(p))
    ELSE s # <<>> /\ s[1] = p[1] /\ GlobMatch(Tail(s), Tail(p))

\* What version(*names) has to hand back when a name holds '*': for a pattern
\* the keys of the inventory that match it, for another name the name itself,
\* each with its version ('' when not installed).
GlobResult(names, pkgs) ==
    LET wanted == { k \in DOMAIN pkgs \cup Range(names) :
                      \E i \in 1..Len(names) :
                          IF Contains(names[i], "*")
                          THEN k \in DOMAIN pkgs /\ GlobMatch(k, names[i])
                          ELSE k = names[i] }
    IN  [k \in wanted |-> IF k \in DOMAIN pkgs THEN pkgs[k] ELSE <<>>]

\* C11 as stated: a call of version in which a name holds '*' returns a
\* mapping, never a scalar and never an error, and the mapping holds the keys
\* of the inventory that match, each with its installed version.
C11_GlobGivesMapping ==
    (/\ last.op = "version"
     /\ \E i \in 1..Len(last.args.names) : Contains(last.args.names[i], "*"))
        => /\ last.out.kind = "return"
           /\ last.out.shape = "mapping"
           /\ last.out.val =
                  GlobResult(last.args.names,
                             IF last.args.versions_as_list
                             THEN context[ContextKey]
                             ELSE Stringify(context[ContextKey]))

\* version('a*') with snap a installed has raised NameError.
C11_Witness ==
    /\ last.op = "version"
    /\ last.args.names = <<GlobName>>
    /\ IsInstalled(snaps, <<"a">>)
    /\ context = [k \in {ContextKey} |-> InventoryLists(snaps)]
    /\ last.out.kind = "raise"
    /\ last.out.exc.type = "NameError"

\* C12 as stated: a call of version with more than one name, none of them a
\* pattern, returns a mapping, also when names repeat; a scalar is returned
\* only to a call with exactly one name that is no pattern.
C12_ScalarOnlyForOneName ==
    (/\ last.op = "version"
     /\ \A i \in 1..Len(last.args.names) : ~Contains(last.args.names[i], "*"))
        => /\ last.out.kind = "return"
           /\ Len(last.args.names) > 1 => last.out.shape = "mapping"
           /\ last.out.shape = "scalar" => Len(last.args.names) = 1

\* version('a', 'a') has returned the version of a, not a mapping.
C12_Witness ==
    /\ last.op = "version"
    /\ last.args.names = << <<"a">>, <<"a">> >>
    /\ ~last.args.versions_as_list
    /\ IsInstalled(snaps, <<"a">>)
    /\ last.out.kind = "return"
    /\ last.out.shape = "scalar"
    /\ last.out.val = snaps[<<"a">>]

\* C13: a call of installed(name) made while version(name) is not empty, and a
\* call of removed(name) made while version(name) is empty, returns result
\* True with empty changes and an empty comment, runs neither the install nor
\* the removal command, leaves the installed snaps alone and never invalidates
\* the cached inventory: a cached inventory stays as it is and no command is
\* run at all; with none cached, the only command is the listing the version
\* query runs, whose result the context then holds.
C13_AlreadySatisfiedFrame ==
    [][(last = Idle /\ last'.op \in {"installed", "removed"}) =>
        LET name == last'.args.name
            v == version(context, snaps, <<name>>, FALSE)
        IN  (/\ v.out.kind = "return"
             /\ Truthy(v.out.val) <=> last'.op = "installed")
                => /\ last'.out =
                          [kind |-> "return",
                           val |-> [name |-> name, result |-> TRUE,
                                    changes |-> EmptyDict, comment |-> ""]]
                   /\ ~Runs("install", last')
                   /\ ~Runs("remove", last')
                   /\ snaps' = snaps
                   /\ IF ContextKey \in DOMAIN context
                      THEN context' = context /\ last'.calls = <<>>
                      ELSE /\ context' = [k \in {ContextKey} |-> InventoryLists(snaps)]
                           /\ last'.calls = <<ListCmd>>
    ]_vars

\* installed of a snap that is installed has returned, served from the cache.
C13_Witness ==
    /\ last.op = "installed"
    /\ IsInstalled(snaps, last.args.name)
    /\ last.out.kind = "return"
    /\ last.out.val.result
    /\ last.out.val.changes = EmptyDict
    /\ last.calls = <<>>
    /\ context = [k \in {ContextKey} |-> InventoryLists(snaps)]

\* C14: a call of install or remove that passes validation raises
\* CommandExecutionError, with the errors and the changes as payload, exactly
\* when its command exited with a code other than 0 and wrote to the error
\* stream; in every other case it returns the ChangeSet.
C14_ErrorIffFailedWithStderr ==
    (last.op \in {"install", "remove"} /\ Runs(last.op, last))
        => IF last.run.retcode # 0 /\ last.run.stderr # <<>>
           THEN /\ last.out.kind = "raise"
                /\ last.out.exc.type = "CommandExecutionError"
                /\ last.out.exc.hasInfo
                /\ last.out.exc.info.errors = <<last.run.stderr>>
           ELSE /\ last.out.kind = "return"
                /\ \A k \in DOMAIN last.out.val :
                       /\ last.out.val[k].new =
                              (IF IsInstalled(snaps, k) THEN snaps[k] ELSE <<>>)
                       /\ last.out.val[k].old # last.out.val[k].new

\* A removal whose command exited with a code other than 0 and wrote nothing
\* to the error stream has returned.
C14_Witness ==
    /\ last.op = "remove"
    /\ Runs("remove", last)
    /\ last.run.retcode # 0
    /\ last.run.stderr = <<>>
    /\ last.out.kind = "return"

\* The number of times a call ran the install or the removal command.
MutatingRuns(call) ==
    Cardinality({ i \in 1..Len(call.calls) :
                    call.calls[i].tool \in {"install", "remove"} })

\* C15: no call runs the install or the removal command more than once, and
\* none runs both; a call of install or remove that passes validation runs its
\* command exactly once, also when the command fails, and a call of installed
\* or removed that reaches install or remove lets it run once and hands back
\* the one outcome it had.
C15_NoRetries ==
    /\ last # Idle => MutatingRuns(last) <= 1
    /\ (last # Idle /\ last.op \in {"install", "remove"}
            /\ last.out.kind = "raise" /\ last.out.exc.hasInfo)
           => MutatingRuns(last) = 1 /\ Runs(last.op, last)
    /\ (last # Idle /\ last.op \in {"installed", "removed"}
            /\ last.inner.kind = "raise" /\ last.inner.exc.hasInfo)
           => /\ MutatingRuns(last) = 1
              /\ last.out.kind = "return"
              /\ last.out.val.result = FALSE

\* installed has returned a failure after the install command failed once.
C15_Witness ==
    /\ last.op = "installed"
    /\ last.inner.kind = "raise"
    /\ last.inner.exc.hasInfo
    /\ last.run.retcode # 0
    /\ MutatingRuns(last) = 1
    /\ ~IsInstalled(snaps, last.args.name)

\* A line that gives a name and a version: it does not begin with whitespace
\* and has two fields at least.
WellFormed(line) ==
    /\ line # <<>>
    /\ ~IsSpace(line[1])
    /\ Len(SplitOn(CompressSpace(line), " ")) >= 2

\* The inventory of the lines that are well formed, in the shape asked for.
RECURSIVE WellFormedPkgs(_, _, _)
WellFormedPkgs(lines, i, ret) ==
    IF i > Len(lines) THEN SortPkglist(ret)
    ELSE IF WellFormed(lines[i])
    THEN WellFormedPkgs(lines, i + 1,
             AddPkg(ret, SplitOn(CompressSpace(lines[i]), " ")[1],
                         SplitOn(CompressSpace(lines[i]), " ")[2]))
    ELSE WellFormedPkgs(lines, i + 1, ret)

\* C16 as stated: list_pkgs, run on a listing with lines that are not a name
\* and a version (one field only, or whitespace first), returns and stores
\* the pairs of the well-formed lines before and after them and nothing else.
C16_MalformedLinesSkipped ==
    (/\ last.op = "list_pkgs"
     /\ "lines" \in DOMAIN last.args
     /\ last.calls = <<ListCmd>>)
        => /\ context[ContextKey] = WellFormedPkgs(last.args.lines, 1, EmptyDict)
           /\ last.out.val =
                  IF last.args.versions_as_list
                  THEN WellFormedPkgs(last.args.lines, 1, EmptyDict)
                  ELSE Stringify(WellFormedPkgs(last.args.lines, 1, EmptyDict))

\* list_pkgs has returned an inventory with an entry of the empty name, made
\* from the line that begins with whitespace, next to the row of snap a.
C16_Witness ==
    /\ last.op = "list_pkgs"
    /\ "lines" \in DOMAIN last.args
    /\ last.args.lines = <<ListRow(<<"a">>, <<"1">>), IndentedLine>>
    /\ ~last.args.versions_as_list
    /\ DOMAIN last.out.val = {<<>>, <<"a">>}
    /\ last.out.val[<<>>] = <<"c">>

\* C17: a call of list_pkgs with removed or purge_desired set returns the
\* empty dict, runs no external command and leaves the context exactly as it
\* was, whether it held an inventory or not, for both values of
\* versions_as_list.
C17_FlaggedListingIsEmpty ==
    [][(last = Idle /\ last'.op = "list_pkgs" /\ last'.args.skipped) =>
        /\ last'.out = [kind |-> "return", val |-> EmptyDict]
        /\ last'.calls = <<>>
        /\ context' = context
        /\ snaps' = snaps
        /\ ~aliased'
    ]_vars

\* list_pkgs(removed=True) has returned {} while the context holds an
\* inventory that is not empty.
C17_Witness ==
    /\ last.op = "list_pkgs"
    /\ last.args.skipped
    /\ last.out.val = EmptyDict
    /\ last.calls = <<>>
    /\ ContextKey \in DOMAIN context
    /\ context[ContextKey] # EmptyDict

\* C18: when the snaps change through the commands of install and remove
\* only, a cached inventory is always the inventory really installed, and
\* after every call of install or remove that ran its command the inventory is
\* cached, also when the call raised.
C18_CacheCoherence ==
    /\ ContextKey \in DOMAIN context
           => context[ContextKey] = InventoryLists(snaps)
    /\ (last # Idle /\ last.op \in {"install", "remove"} /\ Runs(last.op, last))
           => ContextKey \in DOMAIN context

\* install has raised after its command changed the installed snaps, and the
\* context holds the inventory as it now is.
C18_Witness ==
    /\ last.op = "install"
    /\ last.out.kind = "raise"
    /\ last.out.exc.hasInfo
    /\ last.out.exc.info.changes # EmptyDict
    /\ last.run.retcode # 0
    /\ ContextKey \in DOMAIN context
    /\ context[ContextKey] = InventoryLists(snaps)

\* C19 as stated: when the snaps change through this module only, a report of
\* installed(X) with result True means X is installed at the return, and a
\* report of removed(X) with result True means X is not, whatever the external
\* tool did.
C19_SuccessMeansConverged ==
    (/\ last # Idle
     /\ last.op \in {"installed", "removed"}
     /\ last.out.kind = "return"
     /\ last.out.val.result)
        => (IsInstalled(snaps, last.args.name) <=> last.op = "installed")

\* installed has reported result True after an install command that exited
\* with a code other than 0, wrote nothing to the error stream and left the
\* snap absent.
C19_Witness ==
    /\ last.op = "installed"
    /\ last.args.name \in StoreNames
    /\ Runs("install", last)
    /\ last.run.retcode # 0
    /\ last.run.stderr = <<>>
    /\ last.out.kind = "return"
    /\ last.out.val.result
    /\ ~IsInstalled(snaps, last.args.name)

====
